---- MODULE Spec2Model ----
(***************************************************************************)
(* The four download scripts of the repository as one state machine.       *)
(*                                                                         *)
(*   articles     specs/help/download_articles.py                          *)
(*   images       specs/download_images.py                                 *)
(*   help_images  scrape/download_help_images.py                           *)
(*   screenshots  specs/download_screenshots.py                            *)
(*                                                                         *)
(* A behaviour runs ONE script (prog, chosen in Init); the article         *)
(* downloader may be run again over the disk it left.  Each script is      *)
(* single-threaded.  The network and the disk are the environment: every   *)
(* GET and every write draws its outcome with \E.                          *)
(***************************************************************************)
EXTENDS Integers, Sequences, FiniteSets, TLC

\* ------------------------------------------------------------------ bounds
\* Entries of the ARTICLES manifest that are modelled (the real one has 142).
NumArticles == 2
\* Number of consecutive runs of the article downloader over the same disk.
MaxRuns == 2
\* Entries of the IMAGES and of the HELP_IMAGES manifests that are modelled.
NumImages == 2
\* Pages of download_screenshots.py's page lists that are modelled.
NumPages == 2
\* Longest of the token sequences the converter is applied to, all of them.
MaxDocLen == 3

\* ------------------------------------------------------------ file contents
\* What a path holds.  kind: "absent" (no file), "old" (a file that was there
\* before the first run), "partial" (opened for writing, the write failed),
\* "md" (a Markdown article) or "bytes" (the body of a GET of src).
File(kind, src, title, body) ==
    [kind |-> kind, src |-> src, title |-> title, body |-> body]

Absent == File("absent", <<>>, <<>>, <<>>)
OldFile == File("old", <<>>, <<>>, <<>>)
Partial == File("partial", <<>>, <<>>, <<>>)

\* Path.exists()
exists(fsys, path) == fsys[path].kind # "absent"

\* Outcomes of open(path, 'w') followed by f.write(data): the open can fail
\* (nothing on disk changes), or the open succeeds, which creates or truncates
\* the file, and the write fails, or both succeed.
WriteOutcomes == {"ok", "open_fails", "write_fails"}

\* with open(path, mode) as f: f.write(data)   -- the disk afterwards
write_file(fsys, path, data, wr) ==
    CASE wr = "ok" -> [fsys EXCEPT ![path] = data]
      [] wr = "write_fails" -> [fsys EXCEPT ![path] = Partial]
      [] OTHER -> fsys

\* ---------------------------------------------------------------- network
\* Outcomes of urllib.request.urlopen(...) + resp.read(): an exception
\* (timeout, connection or TLS error, HTTPError for a status outside 2xx such
\* as 404) or the body of the response.
RaiseKinds == {"timeout", "neterr", "http_error"}

\* The responses urlopen hands back without raising: status 200 ("ok") and
\* the other 2xx statuses ("status_2xx", such as 203).  The urllib scripts
\* never read resp.status.
UrllibCompleted == {"ok", "status_2xx"}

\* What a GET gives: kind is one of RaiseKinds, or "bad_utf8" (the body is not
\* UTF-8, so that decode raises), or "ok" or "status_2xx" with the body, or
\* "status_404" (requests: a response whose status is not 200), or "none"
\* when no GET was made.
Response(kind, body) == [kind |-> kind, body |-> body]
NoResponse == Response("none", <<>>)

\* --------------------------------------------------------------- HTML text
\* Text is a sequence of tokens.  A token is a tag (one of Tags, written as
\* the tag's text; the attributes [^>]* of a tag are part of its token) or
\* one character of text outside tags.  Text characters never include "<".
OpenTags == {"<h1>", "<h2>", "<h3>", "<h4>", "<p>", "<strong>", "<b>", "<em>",
             "<i>", "<li>", "<ul>", "<ol>", "<code>", "<pre>", "<br>",
             "<script>", "<style>", "<article>", "<div>", "<div body>",
             "<span>"}
CloseTags == {"</h1>", "</h2>", "</h3>", "</h4>", "</p>", "</strong>", "</b>",
              "</em>", "</i>", "</li>", "</ul>", "</ol>", "</code>", "</pre>",
              "</script>", "</style>", "</article>", "</div>", "</span>"}
Tags == OpenTags \cup CloseTags \cup {"<a>", "</a>"}

IsText(tok) == tok \notin Tags
\* \s of the regular expressions
IsSpace(tok) == tok \in {" ", "\n", "\t"}

\* The tokens a pattern "<name[^>]*>" matches: every opening tag whose name
\* begins with name.
StartsLike(name) ==
    CASE name = "h1" -> {"<h1>"}
      [] name = "h2" -> {"<h2>"}
      [] name = "h3" -> {"<h3>"}
      [] name = "h4" -> {"<h4>"}
      [] name = "p" -> {"<p>", "<pre>"}
      [] name = "strong" -> {"<strong>"}
      [] name = "b" -> {"<b>", "<br>"}
      [] name = "em" -> {"<em>"}
      [] name = "i" -> {"<i>"}
      [] name = "li" -> {"<li>"}
      [] name = "ul" -> {"<ul>"}
      [] name = "ol" -> {"<ol>"}
      [] name = "code" -> {"<code>"}
      [] name = "pre" -> {"<pre>"}
      [] name = "script" -> {"<script>"}
      [] name = "style" -> {"<style>"}
      [] name = "article" -> {"<article>"}
      [] name = "div" -> {"<div>", "<div body>"}
      [] OTHER -> {}

\* The closing tag "</name>"
Closing(name) ==
    CASE name = "h1" -> "</h1>"
      [] name = "h2" -> "</h2>"
      [] name = "h3" -> "</h3>"
      [] name = "h4" -> "</h4>"
      [] name = "p" -> "</p>"
      [] name = "strong" -> "</strong>"
      [] name = "b" -> "</b>"
      [] name = "em" -> "</em>"
      [] name = "i" -> "</i>"
      [] name = "li" -> "</li>"
      [] name = "code" -> "</code>"
      [] name = "pre" -> "</pre>"
      [] name = "script" -> "</script>"
      [] name = "style" -> "</style>"
      [] name = "article" -> "</article>"
      [] OTHER -> "</div>"

\* Sub-sequence s[i..j], empty when j < i
Slice(s, i, j) == IF j < i THEN <<>> ELSE SubSeq(s, i, j)

\* Index of the last token of the longest run of text starting at s[i]:
\* what [^<]* consumes from position i (i - 1 when s[i] is a tag).
RECURSIVE TextRunEnd(_, _)
TextRunEnd(s, i) ==
    IF i <= Len(s) /\ IsText(s[i]) THEN TextRunEnd(s, i + 1) ELSE i - 1

\* Does "<name[^>]*>([^<]+)</name>" (min = 1) or "<name[^>]*>([^<]*)</name>"
\* (min = 0) match s at position i?
WrapMatches(s, i, name, min) ==
    /\ i <= Len(s)
    /\ s[i] \in StartsLike(name)
    /\ LET e == TextRunEnd(s, i + 1)
       IN  /\ e - i >= min
           /\ e + 1 <= Len(s)
           /\ s[e + 1] = Closing(name)

\* re.search(r'<name[^>]*>([^<]+)</name>', s): position of the first match at
\* or after i, 0 when there is none.
RECURSIVE SearchWrap(_, _, _, _)
SearchWrap(s, i, name, min) ==
    IF i > Len(s) THEN 0
    ELSE IF WrapMatches(s, i, name, min) THEN i
    ELSE SearchWrap(s, i + 1, name, min)

\* First index j >= i with s[j] = tok, 0 when there is none.
IndexFrom(s, i, tok) ==
    IF \E j \in i .. Len(s) : s[j] = tok
    THEN CHOOSE j \in i .. Len(s) :
             s[j] = tok /\ \A k \in i .. j - 1 : s[k] # tok
    ELSE 0

\* First index j >= i with s[j] not white space (Len(s) + 1 at the end):
\* where \s* stops.
RECURSIVE SkipSpace(_, _)
SkipSpace(s, i) ==
    IF i <= Len(s) /\ IsSpace(s[i]) THEN SkipSpace(s, i + 1) ELSE i

Untitled == <<"U", "n", "t", "i", "t", "l", "e", "d">>

\* Does "</div>\s*</div>\s*</article>" match s at position j?
BodyTail(s, j) ==
    /\ j <= Len(s) /\ s[j] = "</div>"
    /\ LET k == SkipSpace(s, j + 1)
       IN  /\ k <= Len(s) /\ s[k] = "</div>"
           /\ LET m == SkipSpace(s, k + 1)
              IN  m <= Len(s) /\ s[m] = "</article>"

\* The end of the lazy group (.*?) that starts after position i: the first
\* j > i where the tail of the pattern matches, 0 when there is none.
RECURSIVE LazyBodyEnd(_, _)
LazyBodyEnd(s, j) ==
    IF j > Len(s) THEN 0
    ELSE IF BodyTail(s, j) THEN j
    ELSE LazyBodyEnd(s, j + 1)

\* re.search of the article_body pattern from position i: <<start, end>> of
\* the first match (the div token and the first </div> of the tail), <<0, 0>>
\* when there is none.
RECURSIVE SearchBody(_, _)
SearchBody(s, i) ==
    IF i > Len(s) THEN <<0, 0>>
    ELSE IF s[i] = "<div body>" /\ LazyBodyEnd(s, i + 1) # 0
         THEN <<i, LazyBodyEnd(s, i + 1)>>
    ELSE SearchBody(s, i + 1)

\* re.search(r'<article[^>]*>(.*?)</article>', s, re.DOTALL)
RECURSIVE SearchArticle(_, _)
SearchArticle(s, i) ==
    IF i > Len(s) THEN <<0, 0>>
    ELSE IF s[i] \in StartsLike("article") /\ IndexFrom(s, i + 1, "</article>") # 0
         THEN <<i, IndexFrom(s, i + 1, "</article>")>>
    ELSE SearchArticle(s, i + 1)

\* extract_content whose title has no default
extract_title_nodefault(html) ==
    LET t == SearchWrap(html, 1, "h1", 1)
    IN  IF t # 0 THEN Slice(html, t + 1, TextRunEnd(html, t + 1)) ELSE <<>>

extract_title(html) ==
    LET t == SearchWrap(html, 1, "h1", 1)
    IN  IF t # 0 THEN Slice(html, t + 1, TextRunEnd(html, t + 1)) ELSE Untitled

extract_body(html) ==
    LET b == SearchBody(html, 1)
        a == SearchArticle(html, 1)
    IN  IF b[1] # 0 THEN Slice(html, b[1] + 1, b[2] - 1)
        ELSE IF a[1] # 0 THEN Slice(html, a[1] + 1, a[2] - 1)
        ELSE <<>>

\* extract_content(html) -> (title, body)
extract_content(html) == [title |-> extract_title(html), body |-> extract_body(html)]

\* ------------------------------------------------------ Markdown converter
\* SubWrap with a replacement that leaves the matched text \1 out
RECURSIVE SubWrap_no_text(_, _, _, _, _, _)
SubWrap_no_text(s, i, name, min, pre, post) ==
    IF i > Len(s) THEN <<>>
    ELSE IF WrapMatches(s, i, name, min)
         THEN pre \o post
                  \o SubWrap_no_text(s, TextRunEnd(s, i + 1) + 2, name, min, pre, post)
    ELSE <<s[i]>> \o SubWrap_no_text(s, i + 1, name, min, pre, post)

\* re.sub(r'<name[^>]*>([^<]+)</name>', pre + r'\1' + post, s) from position
\* i on (min = 0 for the patterns with [^<]*).
RECURSIVE SubWrap(_, _, _, _, _, _)
SubWrap(s, i, name, min, pre, post) ==
    IF i > Len(s) THEN <<>>
    ELSE IF WrapMatches(s, i, name, min)
         THEN LET e == TextRunEnd(s, i + 1)
              IN  pre \o Slice(s, i + 1, e) \o post
                      \o SubWrap(s, e + 2, name, min, pre, post)
    ELSE <<s[i]>> \o SubWrap(s, i + 1, name, min, pre, post)

\* re.sub(r'<name[^>]*>.*?</name>', '', s, flags=re.DOTALL) from position i on
RECURSIVE SubBlock(_, _, _)
SubBlock(s, i, name) ==
    IF i > Len(s) THEN <<>>
    ELSE IF s[i] \in StartsLike(name) /\ IndexFrom(s, i + 1, Closing(name)) # 0
         THEN SubBlock(s, IndexFrom(s, i + 1, Closing(name)) + 1, name)
    ELSE <<s[i]>> \o SubBlock(s, i + 1, name)

\* The character U+0060 of the code-span and fence markers
BackQuote == "bq"

\* href="([^"]*)" of an <a> token: the model's anchors all point to "u".
Href(tok) == <<"u">>

\* re.sub(r'<a[^>]*href="([^"]*)"[^>]*>([^<]*)</a>', r'[\2](\1)', s)
RECURSIVE SubLink(_, _)
SubLink(s, i) ==
    IF i > Len(s) THEN <<>>
    ELSE IF /\ s[i] = "<a>"
            /\ TextRunEnd(s, i + 1) + 1 <= Len(s)
            /\ s[TextRunEnd(s, i + 1) + 1] = "</a>"
         THEN LET e == TextRunEnd(s, i + 1)
              IN  <<"[">> \o Slice(s, i + 1, e) \o <<"]", "(">> \o Href(s[i])
                      \o <<")">> \o SubLink(s, e + 2)
    ELSE <<s[i]>> \o SubLink(s, i + 1)

\* re.sub of a pattern that matches single tokens: each token of the set
\* toks is replaced by the text rep.
RECURSIVE SubTokens(_, _, _)
SubTokens(s, toks, rep) ==
    IF s = <<>> THEN <<>>
    ELSE (IF Head(s) \in toks THEN rep ELSE <<Head(s)>>)
             \o SubTokens(Tail(s), toks, rep)

\* Length of the run of the character c that starts at s[i]
RECURSIVE RunLen(_, _, _)
RunLen(s, i, c) ==
    IF i <= Len(s) /\ s[i] = c THEN 1 + RunLen(s, i + 1, c) ELSE 0

\* re.sub(c{min,}, rep, s): every maximal run of at least min characters c
\* becomes rep.
RECURSIVE SubRuns(_, _, _, _, _)
SubRuns(s, i, c, min, rep) ==
    IF i > Len(s) THEN <<>>
    ELSE IF RunLen(s, i, c) >= min
         THEN rep \o SubRuns(s, i + RunLen(s, i, c), c, min, rep)
    ELSE <<s[i]>> \o SubRuns(s, i + 1, c, min, rep)

\* str.strip()
RECURSIVE strip(_)
strip(s) ==
    IF s = <<>> THEN s
    ELSE IF IsSpace(Head(s)) THEN strip(Tail(s))
    ELSE IF IsSpace(s[Len(s)]) THEN strip(SubSeq(s, 1, Len(s) - 1))
    ELSE s

\* html_to_markdown without the pass that removes the remaining tags
html_to_markdown_keep_tags(html) ==
    LET s1 == SubBlock(SubBlock(html, 1, "script"), 1, "style")
        h1 == SubWrap(s1, 1, "h1", 1, <<"#", " ">>, <<>>)
        h2 == SubWrap(h1, 1, "h2", 1, <<"#", "#", " ">>, <<>>)
        h3 == SubWrap(h2, 1, "h3", 1, <<"#", "#", "#", " ">>, <<>>)
        h4 == SubWrap(h3, 1, "h4", 1, <<"#", "#", "#", "#", " ">>, <<>>)
        pp == SubWrap(h4, 1, "p", 0, <<>>, <<"\n", "\n">>)
        aa == SubLink(pp, 1)
        b1 == SubWrap(aa, 1, "strong", 0, <<"*", "*">>, <<"*", "*">>)
        b2 == SubWrap(b1, 1, "b", 0, <<"*", "*">>, <<"*", "*">>)
        e1 == SubWrap(b2, 1, "em", 0, <<"*">>, <<"*">>)
        e2 == SubWrap(e1, 1, "i", 0, <<"*">>, <<"*">>)
        li == SubWrap(e2, 1, "li", 0, <<"-", " ">>, <<"\n">>)
        u1 == SubTokens(li, StartsLike("ul"), <<>>)
        u2 == SubTokens(u1, {"</ul>"}, <<"\n">>)
        o1 == SubTokens(u2, StartsLike("ol"), <<>>)
        o2 == SubTokens(o1, {"</ol>"}, <<"\n">>)
        c1 == SubWrap(o2, 1, "code", 0, <<BackQuote>>, <<BackQuote>>)
        c2 == SubWrap(c1, 1, "pre", 0, <<BackQuote, BackQuote, BackQuote, "\n">>, <<"\n", BackQuote, BackQuote, BackQuote>>)
        br == SubTokens(c2, {"<br>"}, <<"\n">>)
        nl == SubRuns(br, 1, "\n", 3, <<"\n", "\n">>)
        sp == SubRuns(nl, 1, " ", 2, <<" ">>)
    IN  strip(sp)

\* html_to_markdown(html), one pass per re.sub of the source, in its order
html_to_markdown(html) ==
    LET s1 == SubBlock(SubBlock(html, 1, "script"), 1, "style")
        h1 == SubWrap(s1, 1, "h1", 1, <<"#", " ">>, <<>>)
        h2 == SubWrap(h1, 1, "h2", 1, <<"#", "#", " ">>, <<>>)
        h3 == SubWrap(h2, 1, "h3", 1, <<"#", "#", "#", " ">>, <<>>)
        h4 == SubWrap(h3, 1, "h4", 1, <<"#", "#", "#", "#", " ">>, <<>>)
        pp == SubWrap(h4, 1, "p", 0, <<>>, <<"\n", "\n">>)
        aa == SubLink(pp, 1)
        b1 == SubWrap(aa, 1, "strong", 0, <<"*", "*">>, <<"*", "*">>)
        b2 == SubWrap(b1, 1, "b", 0, <<"*", "*">>, <<"*", "*">>)
        e1 == SubWrap(b2, 1, "em", 0, <<"*">>, <<"*">>)
        e2 == SubWrap(e1, 1, "i", 0, <<"*">>, <<"*">>)
        li == SubWrap(e2, 1, "li", 0, <<"-", " ">>, <<"\n">>)
        u1 == SubTokens(li, StartsLike("ul"), <<>>)
        u2 == SubTokens(u1, {"</ul>"}, <<"\n">>)
        o1 == SubTokens(u2, StartsLike("ol"), <<>>)
        o2 == SubTokens(o1, {"</ol>"}, <<"\n">>)
        c1 == SubWrap(o2, 1, "code", 0, <<BackQuote>>, <<BackQuote>>)
        c2 == SubWrap(c1, 1, "pre", 0, <<BackQuote, BackQuote, BackQuote, "\n">>, <<"\n", BackQuote, BackQuote, BackQuote>>)
        br == SubTokens(c2, {"<br>"}, <<"\n">>)
        tg == SubTokens(br, Tags, <<>>)
        nl == SubRuns(tg, 1, "\n", 3, <<"\n", "\n">>)
        sp == SubRuns(nl, 1, " ", 2, <<" ">>)
    IN  strip(sp)

\* ------------------------------------------------- download_articles.py
\* The pages a help-centre URL may answer with, as token sequences: an empty
\* body, a page without h1 and without article, a page with a title only, a
\* full article page, an article without the article_body div and without h1.
ArticleDocs ==
    { <<>>,
      <<"<p>", "x", "</p>">>,
      <<"<h1>", "T", "</h1>", "<p>", "x", "</p>">>,
      <<"<h1>", "T", "</h1>", "<article>", "<div>", "<div body>", "<h2>", "S",
        "</h2>", "<p>", "x", " ", "<strong>", "y", "</strong>", "</p>",
        "</div>", "\n", "</div>", "</article>">>,
      <<"<article>", "<p>", "y", "</p>", "</article>">> }

ArticleResponses ==
    {Response(k, <<>>) : k \in RaiseKinds \cup {"bad_utf8"}}
        \cup {Response("ok", d) : d \in ArticleDocs}
        \cup {Response("status_2xx", <<"<p>", "x", "</p>">>)}

\* What a function hands to its caller: raised is TRUE when an exception
\* leaves the function, else ret is its return value; fs is the disk
\* afterwards, gets the number of GET requests it made and wr what its write
\* did ("none" when it did not open the file).
Outcome(raised, ret, fsys, gets, wr) ==
    [raised |-> raised, ret |-> ret, fs |-> fsys, gets |-> gets, wr |-> wr]

\* fetch_article(url) with an unguarded urlopen
fetch_article_unguarded(resp) ==
    [raised |-> resp.kind \notin UrllibCompleted, none |-> FALSE, text |-> resp.body]

\* fetch_article(url): none is TRUE for the return value None, else text is
\* the decoded body.
fetch_article(resp) ==
    [raised |-> FALSE, none |-> resp.kind \notin UrllibCompleted, text |-> resp.body]

\* The f-string of save_article: title line, source url and category of the
\* entry, rule, converted body, rule, footer.
markdown_file(k, title, content) == File("md", <<k>>, title, content)

\* save_article without the filepath.exists() test
save_article_noskip(fsys, k, resp, wr) ==
    LET html == fetch_article(resp)
        ec == extract_content(html.text)
        md == markdown_file(k, ec.title, html_to_markdown(ec.body))
    IN  IF html.raised THEN Outcome(TRUE, FALSE, fsys, 1, "none")
        ELSE IF html.none \/ html.text = <<>> THEN Outcome(FALSE, FALSE, fsys, 1, "none")
        ELSE Outcome(FALSE, wr = "ok", write_file(fsys, k, md, wr), 1, wr)

\* save_article whose test of the fetched text is "html is None"
save_article_none_only(fsys, k, resp, wr) ==
    LET html == fetch_article(resp)
        ec == extract_content(html.text)
        md == markdown_file(k, ec.title, html_to_markdown(ec.body))
    IN  IF exists(fsys, k) THEN Outcome(FALSE, TRUE, fsys, 0, "none")
        ELSE IF html.raised THEN Outcome(TRUE, FALSE, fsys, 1, "none")
        ELSE IF html.none THEN Outcome(FALSE, FALSE, fsys, 1, "none")
        ELSE Outcome(FALSE, wr = "ok", write_file(fsys, k, md, wr), 1, wr)

\* save_article(url, filepath, category) for entry k of the manifest, whose
\* filepath is path k: resp is what the GET gives if one is made, wr what the
\* write does if one is made.
save_article(fsys, k, resp, wr) ==
    LET html == fetch_article(resp)
        ec == extract_content(html.text)
        md == markdown_file(k, ec.title, html_to_markdown(ec.body))
    IN  IF exists(fsys, k) THEN Outcome(FALSE, TRUE, fsys, 0, "none")
        ELSE IF html.raised THEN Outcome(TRUE, FALSE, fsys, 1, "none")
        ELSE IF html.none \/ html.text = <<>> THEN Outcome(FALSE, FALSE, fsys, 1, "none")
        ELSE Outcome(FALSE, wr = "ok", write_file(fsys, k, md, wr), 1, wr)

\* --------------------------- download_images.py, download_help_images.py
\* The body of an image response.
ImageBody == <<"v">>

ImageResponses ==
    {Response(k, <<>>) : k \in RaiseKinds}
        \cup {Response(k, ImageBody) : k \in UrllibCompleted}

\* The bytes of a GET of src, as a file
bytes_file(src, body) == File("bytes", src, <<>>, body)

\* download(url, path) that returns True for a path that exists
download_skip_existing(fsys, path, src, resp, wr) ==
    IF exists(fsys, path) THEN Outcome(FALSE, TRUE, fsys, 0, "none")
    ELSE IF resp.kind \notin UrllibCompleted THEN Outcome(FALSE, FALSE, fsys, 1, "none")
    ELSE Outcome(FALSE, wr = "ok",
                 write_file(fsys, path, bytes_file(src, resp.body), wr), 1, wr)

\* download(url, path) of download_images.py: urlopen and read, then open and
\* write, all inside one try whose except returns False.
download(fsys, path, src, resp, wr) ==
    IF resp.kind \notin UrllibCompleted THEN Outcome(FALSE, FALSE, fsys, 1, "none")
    ELSE Outcome(FALSE, wr = "ok",
                 write_file(fsys, path, bytes_file(src, resp.body), wr), 1, wr)

\* download(url, path) of download_help_images.py
help_download(fsys, path, src, resp, wr) ==
    IF resp.kind \notin UrllibCompleted THEN Outcome(FALSE, FALSE, fsys, 1, "none")
    ELSE Outcome(FALSE, wr = "ok",
                 write_file(fsys, path, bytes_file(src, resp.body), wr), 1, wr)

\* ------------------------------------------------ download_screenshots.py
\* A URL is https:// + host + path (+ ? + query); host, path and query are
\* token sequences whose tokens are single characters or, for the words the
\* program looks for, whole words ("cdn.sanity.io", "intercomcdn", "image").
Url(host, path, query) == [host |-> host, path |-> path, query |-> query]

\* The URLs the pages of the model refer to, in the order of Python's string
\* comparison (the order sorted() gives):
\*   1  https://cdn.sanity.io/a.png
\*   2  https://downloads.intercomcdn.com/a.png
\*   3  https://frame.io/about
URLS ==
    << Url(<<"cdn.sanity.io">>, <<"/", "a", ".", "p", "n", "g">>, <<>>),
       Url(<<"downloads.", "intercomcdn", ".com">>,
           <<"/", "a", ".", "p", "n", "g">>, <<>>),
       Url(<<"frame.io">>, <<"/", "a", "b", "o", "u", "t">>, <<>>) >>

url_string(u) ==
    <<"https://">> \o u.host \o u.path
        \o (IF u.query = <<>> THEN <<>> ELSE <<"?">> \o u.query)

\* Characters that \w matches (letters of any script, digits, underscore)
WordChars ==
    {"a", "b", "c", "d", "e", "f", "g", "h", "i", "j", "k", "l", "m", "n", "o",
     "p", "q", "r", "s", "t", "u", "v", "w", "x", "y", "z", "A", "B", "C", "D",
     "E", "F", "G", "H", "I", "J", "K", "L", "M", "N", "O", "P", "Q", "R", "S",
     "T", "U", "V", "W", "X", "Y", "Z", "0", "1", "2", "3", "4", "5", "6", "7",
     "8", "9", "_", "é"}

IMAGE_EXTENSIONS ==
    { <<".", "p", "n", "g">>, <<".", "j", "p", "g">>, <<".", "j", "p", "e", "g">>,
      <<".", "g", "i", "f">>, <<".", "w", "e", "b", "p">>, <<".", "s", "v", "g">> }

\* Index of the last occurrence of c in s, 0 when there is none
LastIndexOf(s, i, c) ==
    IF \E j \in 1 .. i : s[j] = c
    THEN CHOOSE j \in 1 .. i : s[j] = c /\ \A k \in j + 1 .. i : s[k] # c
    ELSE 0

\* os.path.basename(path)
basename(path) == Slice(path, LastIndexOf(path, Len(path), "/") + 1, Len(path))

\* s.split(c)[0]
SplitFirst(s, c) ==
    IF IndexFrom(s, 1, c) = 0 THEN s ELSE Slice(s, 1, IndexFrom(s, 1, c) - 1)

\* SubUnsafe with "/" as the replacement character
SubUnsafe_slash(s) ==
    [k \in 1 .. Len(s) |-> IF s[k] \in WordChars \cup {"-", "."} THEN s[k] ELSE "/"]

\* re.sub(r'[^\w\-.]', '_', s)
SubUnsafe(s) ==
    [k \in 1 .. Len(s) |-> IF s[k] \in WordChars \cup {"-", "."} THEN s[k] ELSE "_"]

\* sanitize_filename(url)
sanitize_filename(u) ==
    LET filename == SubUnsafe(SplitFirst(basename(u.path), "?"))
    IN  IF filename = <<>> THEN <<"i", "m", "a", "g", "e">> ELSE filename

\* os.path.splitext(filename): the extension starts at the last dot, unless
\* only dots come before it.
splitext(filename) ==
    LET d == LastIndexOf(filename, Len(filename), ".")
    IN  IF d > 0 /\ \E i \in 1 .. d - 1 : filename[i] # "."
        THEN [name |-> Slice(filename, 1, d - 1),
              ext |-> Slice(filename, d, Len(filename))]
        ELSE [name |-> filename, ext |-> <<>>]

\* str(n) of a natural number
Digit(n) == <<"0", "1", "2", "3", "4", "5", "6", "7", "8", "9">>[n + 1]
RECURSIVE Str(_)
Str(n) == IF n < 10 THEN <<Digit(n)>> ELSE Str(n \div 10) \o <<Digit(n % 10)>>

\* abs(hash(img_url)) % 10000 lies in 0 .. HashMod - 1.  hash() of a str is
\* salted per process, so the value of a URL is any number of the range; the
\* model draws it from the two ends of the range.
HashMod == 10000
HashSamples == {0, HashMod - 1}

\* The filename process_page stores url u under when abs(hash(u)) % 10000 = h
image_filename(u, h) ==
    LET parts == splitext(sanitize_filename(u))
        ext == IF parts.ext = <<>> \/ parts.ext \notin IMAGE_EXTENSIONS
               THEN <<".", "p", "n", "g">> ELSE parts.ext
    IN  parts.name \o <<"_">> \o Str(h) \o ext

\* str.lower() on the tokens of the model
LowerChar(c) ==
    LET UpperCase ==
            <<"A", "B", "C", "D", "E", "F", "G", "H", "I", "J", "K", "L", "M",
              "N", "O", "P", "Q", "R", "S", "T", "U", "V", "W", "X", "Y", "Z">>
        LowerCase ==
            <<"a", "b", "c", "d", "e", "f", "g", "h", "i", "j", "k", "l", "m",
              "n", "o", "p", "q", "r", "s", "t", "u", "v", "w", "x", "y", "z">>
    IN  IF \E k \in DOMAIN UpperCase : UpperCase[k] = c
        THEN LowerCase[CHOOSE k \in DOMAIN UpperCase : UpperCase[k] = c]
        ELSE c
lower(s) == [i \in DOMAIN s |-> LowerChar(s[i])]

\* s.endswith(t)
EndsWith(s, t) == Len(s) >= Len(t) /\ Slice(s, Len(s) - Len(t) + 1, Len(s)) = t

\* word in s, for a word that is one token of the model
HasWord(s, word) == \E i \in DOMAIN s : s[i] = word

\* is_image_url(url)
is_image_url(u) ==
    \/ \E ext \in IMAGE_EXTENSIONS : EndsWith(lower(u.path), ext)
    \/ HasWord(lower(u.path), "image")
    \/ HasWord(url_string(u), "cdn.sanity.io")
    \/ HasWord(url_string(u), "intercomcdn")

\* The URLs whose images the model may download
ImageUrlIds == {i \in DOMAIN URLS : is_image_url(URLS[i])}

\* The output directories (MAIN_DIR and HELP_DIR of the four)
Dirs == {"main", "help"}
\* The directory of page i of the page lists: the first two pages are main
\* pages, the others help pages.
PageDir(i) == IF i <= 2 THEN "main" ELSE "help"

\* image_filename of the image URLs of the model, per URL and hash value
Filenames ==
    [i \in ImageUrlIds |-> [h \in HashSamples |-> image_filename(URLS[i], h)]]

Path(dir, file) == [dir |-> dir, file |-> file]
ScreenPaths ==
    {Path(d, Filenames[i][h]) : d \in Dirs, i \in ImageUrlIds, h \in HashSamples}

\* What a page answers: the image URLs its HTML refers to (indices of URLS in
\* document order) and whether it holds a srcset list with an empty entry.
PageDoc(imgs, bad) == [imgs |-> imgs, bad_srcset |-> bad]
PageDocs ==
    {PageDoc(<<>>, FALSE), PageDoc(<<2, 1>>, FALSE), PageDoc(<<2, 3>>, FALSE),
     PageDoc(<<1>>, TRUE)}

\* requests.get(url, headers=HEADERS, timeout=...): an exception (timeout,
\* connection or TLS error), a response with a status other than 200
\* ("status_404"), or a response with status 200 ("ok").
RequestsRaiseKinds == {"timeout", "neterr"}
PageResponses ==
    {Response(k, PageDoc(<<>>, FALSE)) : k \in RequestsRaiseKinds \cup {"status_404"}}
        \cup {Response("ok", d) : d \in PageDocs}
ScreenImageResponses ==
    {Response(k, <<>>) : k \in RequestsRaiseKinds \cup {"status_404"}}
        \cup {Response("ok", ImageBody)}

\* ----------------------------------- the text of a page and of its URLs
\* The text of a page and of a URL is a sequence of tokens: single
\* characters ("/", "?", ",", " ", ">", ")", the quote) and the words the
\* patterns look for, kept whole ("<img", "src=", "srcset=", "url(",
\* "https:", "http", "image", the host names).  A URL string is written
\* with its scheme as one token: https://frame.io/x is
\* <<"https:", "/", "/", "frame.io", "/", "x">>.
Quote == "'"

\* The schemes of the URLs of the model ("data:" for inline images)
Schemes == {"https:", "http:", "data:"}

\* url.startswith('//'), url.startswith('/'), url.startswith('http')
StartsWithSlashSlash(url) == Len(url) >= 2 /\ url[1] = "/" /\ url[2] = "/"
StartsWithSlash(url) == Len(url) >= 1 /\ url[1] = "/"
StartsWithHttp(url) == Len(url) >= 1 /\ url[1] \in {"https:", "http:", "http"}

\* Index of the last token of the longest run, starting at s[i], of tokens
\* that are not in stop (i - 1 when s[i] is in stop or i is past the end):
\* what a negated character class with * or + consumes.
RunEnd(s, i, stop) ==
    IF i > Len(s) THEN i - 1
    ELSE IF \E j \in i .. Len(s) : s[j] \in stop
         THEN (CHOOSE j \in i .. Len(s) :
                   s[j] \in stop /\ \A k \in i .. j - 1 : s[k] \notin stop) - 1
    ELSE Len(s)

\* urlparse(base): scheme://netloc of an absolute URL, and the directory of
\* its path (the path up to its last "/", "/" when the path is empty)
Origin(base) == Slice(base, 1, RunEnd(base, 4, {"/", "?", "#"}))
BaseDir(base) ==
    LET p == Slice(base, Len(Origin(base)) + 1, RunEnd(base, 4, {"?", "#"}))
        d == LastIndexOf(p, Len(p), "/")
    IN  IF d = 0 THEN <<"/">> ELSE Slice(p, 1, d)

\* urljoin(base_url, url) for an absolute base and a url without dot
\* segments: a url with a scheme is returned as it is, a network-path
\* reference takes the scheme of the base, an absolute path replaces the
\* path of the base, a relative path is appended to the directory of the
\* base's path.
urljoin(base, url) ==
    IF url = <<>> THEN base
    ELSE IF url[1] \in Schemes THEN url
    ELSE IF StartsWithSlashSlash(url) THEN <<base[1]>> \o url
    ELSE IF StartsWithSlash(url) THEN Origin(base) \o url
    ELSE Origin(base) \o BaseDir(base) \o url

\* The three branches that follow each match.group(1) of extract_image_urls
\* with "//" promoted to "http:"
normalize_url_http(url, base_url) ==
    IF StartsWithSlashSlash(url) THEN <<"http:">> \o url
    ELSE IF StartsWithSlash(url) THEN urljoin(base_url, url)
    ELSE IF ~StartsWithHttp(url) THEN urljoin(base_url, url)
    ELSE url

\* if url.startswith('//') ... elif url.startswith('/') ... elif not
\* url.startswith('http') ...: the url that is added to the set
normalize_url(url, base_url) ==
    IF StartsWithSlashSlash(url) THEN <<"https:">> \o url
    ELSE IF StartsWithSlash(url) THEN urljoin(base_url, url)
    ELSE IF ~StartsWithHttp(url) THEN urljoin(base_url, url)
    ELSE url

\* Does a quoted value start at s[j]: a quote, a non-empty run without
\* quotes, a quote?  (["\']([^"\']+)["\'])
QuotedAt(s, j) ==
    /\ j + 2 <= Len(s) /\ s[j] = Quote
    /\ RunEnd(s, j + 1, {Quote}) >= j + 1
    /\ RunEnd(s, j + 1, {Quote}) + 1 <= Len(s)
QuotedValue(s, j) == Slice(s, j + 1, RunEnd(s, j + 1, {Quote}))
QuotedEnd(s, j) == RunEnd(s, j + 1, {Quote}) + 1

\* <img[^>]+src=["\']([^"\']+)["\'] at s[i]: the position of the src= the
\* greedy [^>]+ leaves to the rest of the pattern (the last one of the tag
\* that a quoted value follows), 0 when the pattern does not match at i.
ImgSrcAt(s, i) ==
    IF i > Len(s) \/ s[i] # "<img" THEN 0
    ELSE LET e == RunEnd(s, i + 1, {">"})
             js == {j \in i + 2 .. e : s[j] = "src=" /\ QuotedAt(s, j + 1)}
         IN  IF js = {} THEN 0 ELSE CHOOSE j \in js : \A k \in js : k <= j

\* The group(1) of every match of re.finditer(img_pattern, s) from i on
RECURSIVE ImgValues(_, _)
ImgValues(s, i) ==
    IF i > Len(s) THEN <<>>
    ELSE IF ImgSrcAt(s, i) # 0
         THEN <<QuotedValue(s, ImgSrcAt(s, i) + 1)>>
                  \o ImgValues(s, QuotedEnd(s, ImgSrcAt(s, i) + 1) + 1)
    ELSE ImgValues(s, i + 1)

\* The group(1) of every match of re.finditer(srcset_pattern, s) from i on
RECURSIVE SrcsetValues(_, _)
SrcsetValues(s, i) ==
    IF i > Len(s) THEN <<>>
    ELSE IF s[i] = "srcset=" /\ QuotedAt(s, i + 1)
         THEN <<QuotedValue(s, i + 1)>> \o SrcsetValues(s, QuotedEnd(s, i + 1) + 1)
    ELSE SrcsetValues(s, i + 1)

\* srcset.split(','): the parts of s between the commas
RECURSIVE SplitOn(_, _)
SplitOn(s, c) ==
    IF IndexFrom(s, 1, c) = 0 THEN <<s>>
    ELSE <<Slice(s, 1, IndexFrom(s, 1, c) - 1)>>
             \o SplitOn(Slice(s, IndexFrom(s, 1, c) + 1, Len(s)), c)

\* part.strip().split(): does the part hold a word at all, and its first word
HasWordIn(part) == \E i \in DOMAIN part : ~IsSpace(part[i])
FirstWord(part) ==
    LET b == SkipSpace(part, 1)
    IN  Slice(part, b, RunEnd(part, b, {" ", "\n", "\t"}))

\* The parts of all srcset values of the text, in order
RECURSIVE Flatten(_)
Flatten(ss) == IF ss = <<>> THEN <<>> ELSE Head(ss) \o Flatten(Tail(ss))
SrcsetParts(s) ==
    LET vals == SrcsetValues(s, 1)
    IN  Flatten([k \in DOMAIN vals |-> SplitOn(vals[k], ",")])

\* url\(["\']?([^)"\']+)["\']?\) at s[i]: <<start, end>> of group(1) and the
\* position of the closing parenthesis, <<0, 0, 0>> when there is no match
BgAt(s, i) ==
    IF i > Len(s) \/ s[i] # "url(" THEN <<0, 0, 0>>
    ELSE LET b == IF i + 1 <= Len(s) /\ s[i + 1] = Quote THEN i + 2 ELSE i + 1
             e == RunEnd(s, b, {")", Quote})
             c == IF e + 1 <= Len(s) /\ s[e + 1] = Quote THEN e + 2 ELSE e + 1
         IN  IF e >= b /\ c <= Len(s) /\ s[c] = ")" THEN <<b, e, c>>
             ELSE <<0, 0, 0>>

\* The group(1) of every match of re.finditer(bg_pattern, s) from i on
RECURSIVE BgValues(_, _)
BgValues(s, i) ==
    IF i > Len(s) THEN <<>>
    ELSE IF BgAt(s, i)[1] # 0
         THEN <<Slice(s, BgAt(s, i)[1], BgAt(s, i)[2])>>
                  \o BgValues(s, BgAt(s, i)[3] + 1)
    ELSE BgValues(s, i + 1)

\* The fixed beginnings of sanity_pattern, intercom_pattern and fern_pattern
CdnPrefixes ==
    { <<"https:", "/", "/", "cdn.sanity.io", "/", "image", "s", "/">>,
      <<"https:", "/", "/", "downloads.", "intercomcdn", ".com", "/">>,
      <<"https:", "/", "/", "files.buildwithfern.com", "/">> }

\* The characters that end [^"\'>\s]+
CdnStops == {Quote, ">", " ", "\n", "\t"}

\* Does the pattern with beginning pre match at s[i]?
CdnAt(s, i, pre) ==
    /\ i + Len(pre) <= Len(s)
    /\ Slice(s, i, i + Len(pre) - 1) = pre
    /\ s[i + Len(pre)] \notin CdnStops

\* The group(0) of every match of re.finditer(pattern, s) from i on, for the
\* pattern with beginning pre
RECURSIVE CdnMatches(_, _, _)
CdnMatches(s, i, pre) ==
    IF i > Len(s) THEN <<>>
    ELSE IF CdnAt(s, i, pre)
         THEN LET e == RunEnd(s, i + Len(pre), CdnStops)
              IN  <<Slice(s, i, e)>> \o CdnMatches(s, e + 1, pre)
    ELSE CdnMatches(s, i + 1, pre)

\* The elements of a sequence
Range(q) == {q[i] : i \in DOMAIN q}

\* extract_image_urls that also keeps each img src as it is written
extract_image_urls_html_raw(html_content, base_url) ==
    LET parts == SrcsetParts(html_content)
    IN  IF \E k \in DOMAIN parts : ~HasWordIn(parts[k])
        THEN [raised |-> TRUE, urls |-> {}]
        ELSE [raised |-> FALSE,
              urls |-> {normalize_url(v, base_url) : v \in Range(ImgValues(html_content, 1))}
                  \cup Range(ImgValues(html_content, 1))
                  \cup {normalize_url(FirstWord(parts[k]), base_url) : k \in DOMAIN parts}
                  \cup {normalize_url(v, base_url) : v \in Range(BgValues(html_content, 1))}
                  \cup UNION {Range(CdnMatches(html_content, 1, pre)) : pre \in CdnPrefixes}]

\* extract_image_urls(html_content, base_url) on the text of a page: raised
\* is TRUE when part.strip().split()[0] raises IndexError on a srcset part
\* without a word, else urls is the set returned.
extract_image_urls_html(html_content, base_url) ==
    LET parts == SrcsetParts(html_content)
    IN  IF \E k \in DOMAIN parts : ~HasWordIn(parts[k])
        THEN [raised |-> TRUE, urls |-> {}]
        ELSE [raised |-> FALSE,
              urls |-> {normalize_url(v, base_url) : v \in Range(ImgValues(html_content, 1))}
                  \cup {normalize_url(FirstWord(parts[k]), base_url) : k \in DOMAIN parts}
                  \cup {normalize_url(v, base_url) : v \in Range(BgValues(html_content, 1))}
                  \cup UNION {Range(CdnMatches(html_content, 1, pre)) : pre \in CdnPrefixes}]

\* extract_image_urls(html_content, base_url): raised is TRUE when
\* part.strip().split()[0] raises IndexError on an empty srcset entry.
extract_image_urls(doc) ==
    [raised |-> doc.bad_srcset, urls |-> {doc.imgs[i] : i \in DOMAIN doc.imgs}]

\* sorted(ids) for a set of indices of URLS
RECURSIVE sorted(_)
sorted(ids) ==
    IF ids = {} THEN <<>>
    ELSE LET m == CHOOSE x \in ids : \A y \in ids : x <= y
         IN  <<m>> \o sorted(ids \ {m})

\* download_image(url, output_path): requests.get, the status test, open and
\* write, all inside one try whose except returns False.
\* download_image that opens output_path before it looks at the response
download_image_open_first(fsys, path, src, resp, wr) ==
    IF resp.kind # "ok"
    THEN Outcome(FALSE, FALSE, [fsys EXCEPT ![path] = Partial], 1, "none")
    ELSE Outcome(FALSE, wr = "ok",
                 write_file(fsys, path, bytes_file(src, resp.body), wr), 1, wr)

download_image(fsys, path, src, resp, wr) ==
    IF resp.kind # "ok" THEN Outcome(FALSE, FALSE, fsys, 1, "none")
    ELSE Outcome(FALSE, wr = "ok",
                 write_file(fsys, path, bytes_file(src, resp.body), wr), 1, wr)

\* The record process_page appends for a downloaded image
ImageRecord(u, filename, page) == [url |-> u, filename |-> filename, page |-> page]

\* manifest.json: kind is "absent" (no file), "partial" (opened, the dump
\* failed) or "json" (then records is the list that was dumped).
Manifest(kind, records) == [kind |-> kind, records |-> records]

\* The last lines of main: with open(manifest_path, 'w') as f: json.dump(...).
\* No try surrounds them: a failure of open or of the write leaves main as an
\* exception.
write_manifest(old, records, wr) ==
    CASE wr = "ok" -> [raised |-> FALSE, manifest |-> Manifest("json", records)]
      [] wr = "write_fails" -> [raised |-> TRUE, manifest |-> Manifest("partial", <<>>)]
      [] OTHER -> [raised |-> TRUE, manifest |-> old]

\* ------------------------------------------------------------------- state
VARIABLES
    prog,            \* the script that runs
    run,             \* number of the current run of the script
    pc,              \* where main is: "loop", "images", "summary", "done", "raised"
    idx,             \* the manifest entry the for loop is at (1-based)
    total,           \* main's total
    success,         \* main's success
    failed,          \* main's failed list (download_articles.py)
    fs,              \* the disk: what each output path holds
    manifest,        \* manifest.json
    hashOf,          \* abs(hash(url)) % 10000 of this process, per image URL
    pending,         \* process_page: the rest of sorted(image_urls)
    downloaded,      \* process_page's downloaded list
    all_downloaded,  \* main's all_downloaded list
    calls,           \* the entries the loop has called its downloader for
    rets,            \* what each of these calls returned
    stored,          \* the image downloads of this run that returned True
    last,            \* the most recent call of a fetching or writing function
    applied          \* a pure function, its argument and (once done) its result

vars == <<prog, run, pc, idx, total, success, failed, fs, manifest, hashOf,
          pending, downloaded, all_downloaded, calls, rets, stored, last,
          applied>>

Progs == {"articles", "images", "help_images", "screenshots"}

\* Number of entries of the manifest of a script
NumEntries(p) ==
    CASE p = "articles" -> NumArticles
      [] p = "screenshots" -> NumPages
      [] OTHER -> NumImages

\* A call of a downloader: fn on manifest entry or URL item with target path;
\* pre and post are what the path held before and after, out its outcome and
\* resp what the GET gave ("none" when no GET was made).
Call(fn, item, path, fsys, out, resp) ==
    [fn |-> fn, item |-> item, pre |-> fsys[path],
     post |-> out.fs[path], same |-> out.fs = fsys, ret |-> out.ret,
     raised |-> out.raised, gets |-> out.gets, wr |-> out.wr,
     resp |-> IF out.gets = 0 THEN NoResponse ELSE resp]

\* A page fetch of process_page, which writes nothing
PageCall(item, ret, raised, resp) ==
    [fn |-> "process_page", item |-> item, pre |-> Absent,
     post |-> Absent, same |-> TRUE, ret |-> ret, raised |-> raised, gets |-> 1,
     wr |-> "none", resp |-> Response(resp.kind, <<>>)]

NoCall ==
    [fn |-> "none", item |-> 0, pre |-> Absent, post |-> Absent,
     same |-> TRUE, ret |-> FALSE, raised |-> FALSE, gets |-> 0, wr |-> "none",
     resp |-> NoResponse]

\* The scripts' runs apply no function on its own
NoApply == [fn |-> "none", arg |-> <<>>, done |-> FALSE, res |-> <<>>]

\* The disks a run may start on.  Any path of the article and image
\* manifests may hold a file.  The directories of download_screenshots.py
\* start empty (the mkdir of a first run): the script never looks at the
\* disk, and the files it meets are those it wrote for an earlier page.
InitialDisks(p) ==
    IF p = "screenshots"
    THEN {[x \in ScreenPaths |-> Absent]}
    ELSE [1 .. NumEntries(p) -> {Absent, OldFile}]

Init ==
    /\ prog \in Progs
    /\ run = 1
    /\ pc = "loop"
    /\ idx = 1
    /\ total = IF prog \in {"articles", "help_images"} THEN NumEntries(prog) ELSE 0
    /\ success = 0
    /\ failed = <<>>
    /\ fs \in InitialDisks(prog)
    /\ manifest = Manifest("absent", <<>>)
    /\ hashOf \in IF prog = "screenshots" THEN [ImageUrlIds -> HashSamples] ELSE {<<>>}
    /\ pending = <<>>
    /\ downloaded = <<>>
    /\ all_downloaded = <<>>
    /\ calls = <<>>
    /\ rets = <<>>
    /\ stored = <<>>
    /\ last = NoCall
    /\ applied = NoApply

screenVars == <<manifest, hashOf, pending, downloaded, all_downloaded, stored>>

\* ----------------------------------------------------------------- actions
\* A loop that a failed entry ends (break)
next_entry_break(i, ret) == IF ret THEN i + 1 ELSE NumEntries(prog) + 1

\* for ... in ...: the entry the loop takes after entry i, whatever the call
\* for entry i returned.
next_entry(i, ret) == i + 1

\* Counting that adds every entry to success
count_article_all(succ, fail, k, ret) ==
    IF ret THEN [success |-> succ + 1, failed |-> fail]
    ELSE [success |-> succ + 1, failed |-> Append(fail, k)]

\* if save_article(...): success += 1  else: failed.append((url, title))
count_article(succ, fail, k, ret) ==
    IF ret THEN [success |-> succ + 1, failed |-> fail]
    ELSE [success |-> succ, failed |-> Append(fail, k)]

\* if download(...): success += 1
count_image(succ, ret) == IF ret THEN succ + 1 ELSE succ

\* One iteration of the loop of download_articles.py's main
ArticleStep ==
    /\ prog = "articles" /\ pc = "loop" /\ idx <= NumArticles
    /\ \E resp \in ArticleResponses, wr \in WriteOutcomes :
         LET out == save_article(fs, idx, resp, wr)
             cnt == count_article(success, failed, idx, out.ret)
         IN  /\ fs' = out.fs
             /\ last' = Call("save_article", idx, idx, fs, out, resp)
             /\ calls' = Append(calls, idx)
             /\ IF out.raised
                THEN /\ pc' = "raised"
                     /\ UNCHANGED <<idx, success, failed, rets>>
                ELSE /\ pc' = "loop"
                     /\ idx' = next_entry(idx, out.ret)
                     /\ success' = cnt.success
                     /\ failed' = cnt.failed
                     /\ rets' = Append(rets, out.ret)
    /\ UNCHANGED <<applied, prog, run, total>>
    /\ UNCHANGED screenVars

\* One iteration of the loop of download_images.py's main
ImageStep ==
    /\ prog = "images" /\ pc = "loop" /\ idx <= NumImages
    /\ \E resp \in ImageResponses, wr \in WriteOutcomes :
         LET out == download(fs, idx, <<idx>>, resp, wr)
         IN  /\ fs' = out.fs
             /\ last' = Call("download", idx, idx, fs, out, resp)
             /\ calls' = Append(calls, idx)
             /\ total' = total + 1
             /\ IF out.raised
                THEN /\ pc' = "raised"
                     /\ UNCHANGED <<idx, success, rets>>
                ELSE /\ pc' = "loop"
                     /\ idx' = next_entry(idx, out.ret)
                     /\ success' = count_image(success, out.ret)
                     /\ rets' = Append(rets, out.ret)
    /\ UNCHANGED <<applied, prog, run, failed>>
    /\ UNCHANGED screenVars

\* One iteration of the loop of download_help_images.py's main
HelpImageStep ==
    /\ prog = "help_images" /\ pc = "loop" /\ idx <= NumImages
    /\ \E resp \in ImageResponses, wr \in WriteOutcomes :
         LET out == help_download(fs, idx, <<idx>>, resp, wr)
         IN  /\ fs' = out.fs
             /\ last' = Call("download", idx, idx, fs, out, resp)
             /\ calls' = Append(calls, idx)
             /\ IF out.raised
                THEN /\ pc' = "raised"
                     /\ UNCHANGED <<idx, success, rets>>
                ELSE /\ pc' = "loop"
                     /\ idx' = next_entry(idx, out.ret)
                     /\ success' = count_image(success, out.ret)
                     /\ rets' = Append(rets, out.ret)
    /\ UNCHANGED <<applied, prog, run, total, failed>>
    /\ UNCHANGED screenVars

\* if download_image(img_url, output_path): downloaded.append({...})
keep_record(list, rec, ret) == IF ret THEN Append(list, rec) ELSE list

\* process_page up to its for loop: the GET of the page, the status test,
\* extract_image_urls and the is_image_url filter.  Any exception and any
\* status but 200 make process_page return [].
PageFetch ==
    /\ prog = "screenshots" /\ pc = "loop" /\ idx <= NumPages
    /\ \E resp \in PageResponses :
         LET ex == extract_image_urls(resp.body)
             ok == resp.kind = "ok" /\ ~ex.raised
             image_urls == {u \in ex.urls : is_image_url(URLS[u])}
         IN  /\ calls' = Append(calls, idx)
             /\ last' = PageCall(idx, ok, FALSE, resp)
             /\ IF ok
                THEN /\ pc' = "images"
                     /\ pending' = sorted(image_urls)
                     /\ downloaded' = <<>>
                     /\ UNCHANGED <<idx, rets>>
                ELSE /\ pc' = "loop"
                     /\ idx' = next_entry(idx, FALSE)
                     /\ rets' = Append(rets, FALSE)
                     /\ UNCHANGED <<pending, downloaded>>
    /\ UNCHANGED <<applied, prog, run, total, success, failed, fs, manifest, hashOf,
                   all_downloaded, stored>>

\* One iteration of process_page's for loop over sorted(image_urls)
ScreenImageStep ==
    /\ prog = "screenshots" /\ pc = "images" /\ pending # <<>>
    /\ \E resp \in ScreenImageResponses, wr \in WriteOutcomes :
         LET img_url == Head(pending)
             filename == Filenames[img_url][hashOf[img_url]]
             path == Path(PageDir(idx), filename)
             out == download_image(fs, path, <<img_url>>, resp, wr)
             rec == ImageRecord(img_url, filename, idx)
         IN  /\ fs' = out.fs
             /\ last' = Call("download_image", img_url, path, fs, out, resp)
             /\ pc' = IF out.raised THEN "loop" ELSE "images"
             /\ idx' = IF out.raised THEN next_entry(idx, FALSE) ELSE idx
             /\ rets' = IF out.raised THEN Append(rets, FALSE) ELSE rets
             /\ pending' = IF out.raised THEN <<>> ELSE Tail(pending)
             /\ downloaded' = IF out.raised THEN <<>>
                              ELSE keep_record(downloaded, rec, out.ret)
             /\ stored' = IF out.ret THEN Append(stored, rec) ELSE stored
    /\ UNCHANGED <<applied, prog, run, total, success, failed, manifest, hashOf,
                   all_downloaded, calls>>

\* process_page returns downloaded and main extends all_downloaded with it
PageReturn ==
    /\ prog = "screenshots" /\ pc = "images" /\ pending = <<>>
    /\ all_downloaded' = all_downloaded \o downloaded
    /\ downloaded' = <<>>
    /\ pc' = "loop"
    /\ idx' = next_entry(idx, TRUE)
    /\ rets' = Append(rets, TRUE)
    /\ UNCHANGED <<applied, prog, run, total, success, failed, fs, manifest, hashOf,
                   pending, calls, stored, last>>

\* The loop is over: main prints its summary
Summary ==
    /\ pc = "loop" /\ idx > NumEntries(prog)
    /\ pc' = "summary"
    /\ UNCHANGED <<applied, prog, run, idx, total, success, failed, fs, calls, rets, last>>
    /\ UNCHANGED screenVars

\* main returns (the three scripts that write no manifest)
Finish ==
    /\ prog # "screenshots" /\ pc = "summary"
    /\ pc' = "done"
    /\ UNCHANGED <<applied, prog, run, idx, total, success, failed, fs, calls, rets, last>>
    /\ UNCHANGED screenVars

\* The end of download_screenshots.py's main: manifest.json is written
ManifestWrite ==
    /\ prog = "screenshots" /\ pc = "summary"
    /\ \E wr \in WriteOutcomes :
         LET w == write_manifest(manifest, all_downloaded, wr)
         IN  /\ manifest' = w.manifest
             /\ pc' = IF w.raised THEN "raised" ELSE "done"
    /\ UNCHANGED <<applied, prog, run, idx, total, success, failed, fs, hashOf, pending,
                   downloaded, all_downloaded, calls, rets, stored, last>>

\* The article downloader is run again over the disk the last run left
Rerun ==
    /\ prog = "articles" /\ pc = "done" /\ run < MaxRuns
    /\ run' = run + 1
    /\ pc' = "loop"
    /\ idx' = 1
    /\ success' = 0
    /\ failed' = <<>>
    /\ calls' = <<>>
    /\ rets' = <<>>
    /\ last' = NoCall
    /\ UNCHANGED <<applied, prog, total, fs>>
    /\ UNCHANGED screenVars

Next ==
    \/ ArticleStep
    \/ ImageStep
    \/ HelpImageStep
    \/ PageFetch
    \/ ScreenImageStep
    \/ PageReturn
    \/ Summary
    \/ Finish
    \/ ManifestWrite
    \/ Rerun

Spec == Init /\ [][Next]_vars

\* The scripts are sequential programs and every GET is bounded by its
\* timeout: a step that can be taken is taken.
FairSpec == Spec /\ WF_vars(Next)

\* ------------------------------------------- the functions on their own
\* References an attribute or a style of a page may hold, as URL text:
\* network-path, absolute-path and relative references, one whose name
\* begins with the letters http, absolute URLs (one of them names a CDN in
\* its query only), an inline image.
UrlRefs ==
    { <<"/", "/", "cdn.example.com", "/", "a", ".", "p", "n", "g">>,
      <<"/", "a", ".", "p", "n", "g">>,
      <<"a", ".", "p", "n", "g">>,
      <<"http", "-", "logo", ".", "p", "n", "g">>,
      <<"https:", "/", "/", "frame.io", "/", "b", ".", "p", "n", "g">>,
      <<"https:", "/", "/", "example.com", "/", "page", "?", "ref=", "cdn.sanity.io">>,
      <<"https:", "/", "/", "cdn.sanity.io", "/", "image", "s", "/", "c", ".", "p", "n", "g">>,
      <<"https:", "/", "/", "files.buildwithfern.com", "/", "docs">>,
      <<"data:", "image", "/", "png;base64", ",", "xx">> }

\* The base_url of a page
BaseUrls ==
    { <<"https:", "/", "/", "frame.io", "/", "x">>,
      <<"https:", "/", "/", "help.frame.io", "/", "en", "/">> }

\* Pieces of page text: an img tag with a src, a tag with a srcset of two
\* candidates, a style with a url(...), a URL in running text
ImgTag(v) == <<"<img", " ", "src=", Quote>> \o v \o <<Quote, ">">>
SrcsetTag(v, w) ==
    <<"<source", " ", "srcset=", Quote>> \o v \o <<" ", "1x", ",", " ">> \o w
        \o <<" ", "2x", Quote, ">">>
StyleTag(v) == <<"<div", " ", "style=", Quote, "url(">> \o v \o <<")", Quote, ">">>
TextUrl(v) == <<"see", " ">> \o v \o <<" ">>

\* A page text with the references put into it, per kind of reference
PageText(html, imgs, srcs, bgs) ==
    [html |-> html, imgs |-> imgs, srcs |-> srcs, bgs |-> bgs]

\* The page texts the extractor is applied to: one or two pieces each, a
\* text without any reference, an img tag with a srcset next to its src, a
\* srcset that ends in a comma, alone and next to a src.
PageTexts ==
    {PageText(ImgTag(v), {v}, {}, {}) : v \in UrlRefs}
        \cup {PageText(StyleTag(v), {}, {}, {v}) : v \in UrlRefs}
        \cup {PageText(TextUrl(v), {}, {}, {}) : v \in UrlRefs}
        \cup {PageText(SrcsetTag(v, w), {}, {v, w}, {}) : v, w \in UrlRefs}
        \cup {PageText(ImgTag(v) \o StyleTag(w), {v}, {}, {w}) : v, w \in UrlRefs}
        \cup { PageText(<<>>, {}, {}, {}),
               PageText(<<"<img", " ", "src=", Quote, "/", "a", ".", "p", "n", "g", Quote, " ",
                          "srcset=", Quote, "/", "a", ".", "p", "n", "g", " ", "1x", ",", " ",
                          "/", "b", ".", "p", "n", "g", " ", "2x", Quote, ">">>,
                        {<<"/", "a", ".", "p", "n", "g">>},
                        {<<"/", "a", ".", "p", "n", "g">>, <<"/", "b", ".", "p", "n", "g">>}, {}),
               PageText(<<"<img", " ", "srcset=", Quote, "/", "a", ".", "p", "n", "g", " ",
                          "1x", ",", Quote, ">">>,
                        {}, {<<"/", "a", ".", "p", "n", "g">>}, {}),
               PageText(<<"<img", " ", "src=", Quote, "/", "b", ".", "p", "n", "g", Quote, " ",
                          "srcset=", Quote, "/", "a", ".", "p", "n", "g", " ", "1x", ",",
                          Quote, ">">>,
                        {<<"/", "b", ".", "p", "n", "g">>},
                        {<<"/", "a", ".", "p", "n", "g">>}, {}) }

\* str.lstrip(' '), which urlparse applies to its argument
RECURSIVE lstrip(_)
lstrip(s) == IF s # <<>> /\ Head(s) = " " THEN lstrip(Tail(s)) ELSE s

\* urlparse(url): after the scheme, the tokens between "//" and the next "/",
\* "?" or "#" are the host, those up to "?" or "#" the path, those after "?"
\* up to "#" the query; the fragment after "#" is not part of the record.
urlparse(text) ==
    LET url == lstrip(text)
        r == IF url # <<>> /\ url[1] \in Schemes THEN 2 ELSE 1
        net == r + 1 <= Len(url) /\ url[r] = "/" /\ url[r + 1] = "/"
        he == RunEnd(url, r + 2, {"/", "?", "#"})
        ps == IF net THEN he + 1 ELSE r
        pe == RunEnd(url, ps, {"?", "#"})
    IN  Url(IF net THEN Slice(url, r + 2, he) ELSE <<>>,
            Slice(url, ps, pe),
            IF pe + 1 <= Len(url) /\ url[pe + 1] = "?"
            THEN Slice(url, pe + 2, RunEnd(url, pe + 2, {"#"})) ELSE <<>>)

\* Every URL the extractor returns for a page text of the model, and three
\* more: an upper-case extension, a path with the word image, a page.
FilterUrls ==
    UNION {extract_image_urls_html(t.html, b).urls : t \in PageTexts, b \in BaseUrls}
        \cup { <<"https:", "/", "/", "frame.io", "/", "a", ".", "P", "N", "G">>,
               <<"https:", "/", "/", "frame.io", "/", "image", "/", "x">>,
               <<"https:", "/", "/", "frame.io", "/", "a", "b", "o", "u", "t">> }

\* All sequences over a set of length at most n
SeqsUpTo(alphabet, n) == UNION {[1 .. k -> alphabet] : k \in 0 .. n}

\* The texts the converter is applied to: the example of the specification, a
\* text with every tag of the vocabulary, all short texts of tags and
\* characters (the character ">" among them), texts with white space in and
\* around an element, and the pages of the article model
ExampleHtml ==
    <<"<h1>", "T", "i", "t", "l", "e", "</h1>", "<p>", "H", "e", "l", "l", "o",
      " ", "<strong>", "w", "o", "r", "l", "d", "</strong>", "</p>">>
VocabularyHtml ==
    <<"<script>", "x", "</script>", "<style>", "x", "</style>",
      "<h1>", "a", "</h1>", "<h2>", "b", "</h2>", "<h3>", "c", "</h3>",
      "<h4>", "d", "</h4>", "<p>", "e", "</p>", "<a>", "f", "</a>",
      "<strong>", "g", "</strong>", "<b>", "h", "</b>", "<em>", "i", "</em>",
      "<i>", "j", "</i>", "<ul>", "<li>", "k", "</li>", "</ul>",
      "<ol>", "<li>", "l", "</li>", "</ol>", "<code>", "m", "</code>",
      "<pre>", "n", "</pre>", "<br>">>
MarkdownInputs ==
    SeqsUpTo({"<h1>", "</h1>", "<p>", "</p>", "<strong>", "</strong>", "x", " ", ">"},
             MaxDocLen)
        \cup ArticleDocs
        \cup { ExampleHtml, VocabularyHtml,
               <<"<div>", "<strong>", "a", " ", " ", "b", "</strong>", "</div>">>,
               <<"<div>", "<b>", "a", " ", "b", "</b>", "<h1>", "T", "</h1>", "</div>">>,
               <<"<li>", "<h1>", "T", " ", "</h1>", "</li>">>,
               <<"<p>", "a", " ", ">", " ", "b", "</p>">> }

\* ------------------------------------- filenames of the other three scripts
\* The lengths the scripts cut a name to
ImagesNameMax == 60
HelpNameMax == 80
SafeTitleMax == 60

\* s[:n]
Take(s, n) == IF Len(s) > n THEN SubSeq(s, 1, n) ELSE s

\* The extensions the two static downloaders look for
StaticExtensions ==
    { <<".", "p", "n", "g">>, <<".", "j", "p", "g">>, <<".", "j", "p", "e", "g">>,
      <<".", "g", "i", "f">>, <<".", "w", "e", "b", "p">> }

\* name += ".png" unless name ends with one of the extensions
WithExtension(name) ==
    IF \E ext \in StaticExtensions : EndsWith(name, ext) THEN name
    ELSE name \o <<".", "p", "n", "g">>

\* f"{i:03d}"
Pad3(i) ==
    IF i < 10 THEN <<"0", "0">> \o Str(i)
    ELSE IF i < 100 THEN <<"0">> \o Str(i)
    ELSE Str(i)

\* url.split("/")[-1].split("?")[0]
LastSegment(url) == SplitFirst(basename(url), "?")

\* download_images.py main: the filename of the i-th URL of a category
images_filename(url, i) ==
    Pad3(i) \o <<"_">> \o WithExtension(Take(LastSegment(url), ImagesNameMax))

\* A mark for the positions a substitution removes
Removed == "removed"
Kept(s) == SelectSeq(s, LAMBDA x : x # Removed)

\* s.replace(<<"%", a, b>>, <<c>>): the "%" of an occurrence becomes c and
\* its two other characters go (two occurrences cannot overlap)
CodeAt(s, k, a, b) ==
    k >= 1 /\ k + 2 <= Len(s) /\ s[k] = "%" /\ s[k + 1] = a /\ s[k + 2] = b
ReplaceCode(s, a, b, c) ==
    Kept([k \in 1 .. Len(s) |->
             IF CodeAt(s, k, a, b) THEN c
             ELSE IF CodeAt(s, k - 1, a, b) \/ CodeAt(s, k - 2, a, b) THEN Removed
             ELSE s[k]])

\* name.replace("%2B", "+").replace("%2F", "/").replace("%20", " ")
decode(name) ==
    ReplaceCode(ReplaceCode(ReplaceCode(name, "2", "B", "+"), "2", "F", "/"),
                "2", "0", " ")

\* download_help_images.py main: the filename of the i-th URL
help_filename(url, i) ==
    Pad3(i) \o <<"_">> \o WithExtension(Take(decode(LastSegment(url)), HelpNameMax))

\* re.sub(r'[^\w\s-]', '', title)
DropUnsafe(s) == SelectSeq(s, LAMBDA x : x \in WordChars \cup {"-"} \/ IsSpace(x))

\* re.sub(r'[-\s]+', '-', s)
\* (the last character of a run of dashes and white space becomes the dash)
DashOrSpace(c) == c = "-" \/ IsSpace(c)
Dashes(s) ==
    Kept([k \in 1 .. Len(s) |->
             IF ~DashOrSpace(s[k]) THEN s[k]
             ELSE IF k < Len(s) /\ DashOrSpace(s[k + 1]) THEN Removed
             ELSE "-"])

\* download_articles.py main: the filename of the article (slug, title)
article_filename(slug, title) ==
    SplitFirst(slug, "-") \o <<"_">>
        \o Take(lower(Dashes(DropUnsafe(title))), SafeTitleMax)
        \o <<".", "m", "d">>

\* A name of n letters
LongName(n) == [k \in 1 .. n |-> "a"]

\* URLs as the lists of the static downloaders hold them, one of them with
\* characters that are not ASCII letters and some with long names
StaticUrls ==
    { <<"https:", "/", "/", "frame.io", "/", "i", "/", "S", "+", "2", "%", "2",
        "B", "a", "_", "7", "%", "E", "2", "P", "M", ".", "p", "n", "g", "?",
        "w", "=", "1">>,
      <<"https:", "/", "/", "frame.io", "/", "d", "/", "c", "a", "f", "é", "%",
        "2", "0", "1", "%", "2", "F", "b", ".", "j", "p", "g">>,
      <<"https:", "/", "/", "frame.io", "/", "a", ".", "s", "v", "g">>,
      <<"https:", "/", "/", "frame.io", "/", "d", "/">>,
      <<"https:", "/", "/", "frame.io", "/">> \o LongName(ImagesNameMax)
          \o <<".", "p", "n", "g">>,
      <<"https:", "/", "/", "frame.io", "/">> \o LongName(HelpNameMax + 1),
      <<"https:", "/", "/", "frame.io", "/">> \o LongName(HelpNameMax + ImagesNameMax)
          \o <<".", "w", "e", "b", "p">> }

\* Positions in the lists, and articles
StaticIndexes == {0, 12, 105}
Slugs == { <<"9", "0", "-", "a", "-", "b">>, <<"7">> }
Titles ==
    SeqsUpTo({"A", "b", " ", "-", "&"}, MaxDocLen)
        \cup { <<"W", "h", "a", "t", " ", "i", "s", " ", "-", " ", "a", "?">>,
               LongName(SafeTitleMax) \o <<" ", "b">> }

\* The characters the generated URL texts of the filename functions are made
\* of, and the texts: all short ones and three with a host
NameInputs ==
    SeqsUpTo({"/", "?", "#", ".", "a", "é", "+", " "}, MaxDocLen)
        \cup { <<"https:", "/", "/", "frame.io", "/", "i", "/", "S", "+", "2",
                 "%", "2", "B", "a", "_", "7", "%", "E", "2", "P", "M", ".", "p",
                 "n", "g", "?", "w", "=", "1">>,
               <<"https:", "/", "/", "frame.io", "/", "d", "/", "c", "a", "f",
                 "é", " ", "1", ".", "j", "p", "g", "#", "t">>,
               <<"https:", "/", "/", "frame.io", "/">> }

\* The documents the extractor is applied to: all short ones of headings with
\* and without text or markup inside, the pages of the article model, and a
\* page whose first heading holds markup
TitleInputs ==
    SeqsUpTo({"<h1>", "</h1>", "<span>", "T"}, MaxDocLen) \cup ArticleDocs
        \cup { <<"<h1>", "<span>", "T", "</span>", "</h1>", "<h1>", "U", "</h1>">>,
               <<"<p>", "x", "</p>", "<h1>", "T", " ", "U", "</h1>", "<h1>", "V", "</h1>">> }

\* A function that is to be applied to arg, and one that has been applied
ToApply(fn, arg) == [fn |-> fn, arg |-> arg, done |-> FALSE, res |-> <<>>]
Applied(fn, arg, res) == [fn |-> fn, arg |-> arg, done |-> TRUE, res |-> res]

\* The applications the functions are checked on
PureInputs ==
    {ToApply("extract_image_urls", [page |-> t, base_url |-> b]) :
        t \in PageTexts, b \in BaseUrls}
        \cup {ToApply("is_image_url", u) : u \in FilterUrls}
        \cup {ToApply("html_to_markdown", h) : h \in MarkdownInputs}
        \cup {ToApply("sanitize_filename", x) : x \in NameInputs \cup StaticUrls}
        \cup {ToApply("extract_content", h) : h \in TitleInputs}
        \cup {ToApply("process_page", [url |-> x, hash |-> h]) :
                  x \in StaticUrls, h \in HashSamples}
        \cup {ToApply(fn, [url |-> x, i |-> i]) :
                  fn \in {"download_images", "download_help_images"},
                  x \in StaticUrls, i \in StaticIndexes}
        \cup {ToApply("download_articles", [slug |-> g, title |-> t]) :
                  g \in Slugs, t \in Titles}

progVars == <<prog, run, pc, idx, total, success, failed, fs, manifest, hashOf,
              pending, downloaded, all_downloaded, calls, rets, stored, last>>

\* No script runs; one function is applied to one argument
PureInit ==
    /\ applied \in PureInputs
    /\ prog = "none" /\ run = 0 /\ pc = "done" /\ idx = 0
    /\ total = 0 /\ success = 0 /\ failed = <<>>
    /\ fs = <<>> /\ manifest = Manifest("absent", <<>>) /\ hashOf = <<>>
    /\ pending = <<>> /\ downloaded = <<>> /\ all_downloaded = <<>>
    /\ calls = <<>> /\ rets = <<>> /\ stored = <<>>
    /\ last = NoCall

\* image_urls = extract_image_urls(html_content, url)
ApplyExtractImageUrls ==
    /\ applied.fn = "extract_image_urls" /\ ~applied.done
    /\ applied' = Applied(applied.fn, applied.arg,
                          extract_image_urls_html(applied.arg.page.html,
                                                  applied.arg.base_url))
    /\ UNCHANGED progVars

\* The test of the filter of process_page: is_image_url(u)
ApplyIsImageUrl ==
    /\ applied.fn = "is_image_url" /\ ~applied.done
    /\ applied' = Applied(applied.fn, applied.arg, is_image_url(urlparse(applied.arg)))
    /\ UNCHANGED progVars

\* content = html_to_markdown(body)
ApplyHtmlToMarkdown ==
    /\ applied.fn = "html_to_markdown" /\ ~applied.done
    /\ applied' = Applied(applied.fn, applied.arg, html_to_markdown(applied.arg))
    /\ UNCHANGED progVars

\* filename = sanitize_filename(img_url)
ApplySanitizeFilename ==
    /\ applied.fn = "sanitize_filename" /\ ~applied.done
    /\ applied' = Applied(applied.fn, applied.arg,
                          sanitize_filename(urlparse(applied.arg)))
    /\ UNCHANGED progVars

\* process_page: filename = f"{name}_{url_hash}{ext}"
ApplyImageFilename ==
    /\ applied.fn = "process_page" /\ ~applied.done
    /\ applied' = Applied(applied.fn, applied.arg,
                          image_filename(urlparse(applied.arg.url), applied.arg.hash))
    /\ UNCHANGED progVars

\* download_images.py main: filename = f"{i:03d}_{name}"
ApplyImagesFilename ==
    /\ applied.fn = "download_images" /\ ~applied.done
    /\ applied' = Applied(applied.fn, applied.arg,
                          images_filename(applied.arg.url, applied.arg.i))
    /\ UNCHANGED progVars

\* download_help_images.py main: filename = f"{i:03d}_{name}"
ApplyHelpFilename ==
    /\ applied.fn = "download_help_images" /\ ~applied.done
    /\ applied' = Applied(applied.fn, applied.arg,
                          help_filename(applied.arg.url, applied.arg.i))
    /\ UNCHANGED progVars

\* download_articles.py main: filename = f"{slug.split('-')[0]}_{safe_title}.md"
ApplyArticleFilename ==
    /\ applied.fn = "download_articles" /\ ~applied.done
    /\ applied' = Applied(applied.fn, applied.arg,
                          article_filename(applied.arg.slug, applied.arg.title))
    /\ UNCHANGED progVars

\* title, body = extract_content(html)
ApplyExtractContent ==
    /\ applied.fn = "extract_content" /\ ~applied.done
    /\ applied' = Applied(applied.fn, applied.arg, extract_content(applied.arg))
    /\ UNCHANGED progVars

PureNext ==
    \/ ApplyExtractContent
    \/ ApplyExtractImageUrls
    \/ ApplyIsImageUrl
    \/ ApplyHtmlToMarkdown
    \/ ApplySanitizeFilename
    \/ ApplyImageFilename
    \/ ApplyImagesFilename
    \/ ApplyHelpFilename
    \/ ApplyArticleFilename

PureSpec == PureInit /\ [][PureNext]_vars

\* ------------------------------------------------------------ observations
FetchFns == {"save_article", "download", "download_image"}

\* The GET of call c was accepted by the function that made it: urlopen
\* handed a response back (the urllib functions), the status was 200
\* (download_image).
Accepted(c) ==
    IF c.fn = "download_image" THEN c.resp.kind = "ok"
    ELSE c.resp.kind \in UrllibCompleted

\* The number of failures main has on its books: len(failed) in
\* download_articles.py, total - success in download_images.py, and the
\* iterations done minus success in download_help_images.py, whose total is
\* the length of the manifest from the start.
FailedCount ==
    CASE prog = "articles" -> Len(failed)
      [] prog = "images" -> total - success
      [] OTHER -> Len(rets) - success

\* The entries k whose call returned False, in the order of the calls
RECURSIVE FailedEntries(_, _)
FailedEntries(r, k) ==
    IF k > Len(r) THEN <<>>
    ELSE (IF r[k] THEN <<>> ELSE <<k>>) \o FailedEntries(r, k + 1)

\* The last save_article is on main's books under what it returned
LastCounted ==
    /\ rets # <<>> /\ rets[Len(rets)] = last.ret
    /\ last.ret => success > 0 /\ (failed = <<>> \/ failed[Len(failed)] # last.item)
    /\ ~last.ret => failed # <<>> /\ failed[Len(failed)] = last.item

\* ------------------------------------------------------------------ claims
\* C1: whenever the target of save_article exists when it is called, the call
\* returns True, makes no GET, opens no file, and leaves the file (and the
\* whole disk) as it was; in every run of the script over the same manifest.
C1_SaveArticleSkipsExisting ==
    (last.fn = "save_article" /\ last.pre.kind # "absent")
        => /\ last.ret /\ ~last.raised
           /\ last.gets = 0
           /\ last.wr = "none"
           /\ last.post = last.pre
           /\ last.same

\* C1 witness: a second run finds the article the first run wrote and skips it
C1_Witness ==
    /\ run = 2 /\ last.fn = "save_article"
    /\ last.pre.kind = "md" /\ last.post = last.pre /\ last.ret /\ last.gets = 0

FailureIsCounted ==
    /\ ~last'.raised /\ ~last'.ret
    /\ pc' # "raised"
    /\ last'.same
    /\ success' = success
    /\ downloaded' = downloaded
    /\ prog # "screenshots" => FailedCount' = FailedCount + 1

EntriesOnceInOrder ==
    /\ calls = [k \in 1 .. Len(calls) |-> k]
    /\ Len(calls) = IF pc = "images" THEN idx ELSE idx - 1
    /\ pc \in {"summary", "done", "raised"} => Len(calls) = NumEntries(prog)
    /\ last.gets <= 1

\* C4: whatever GETs and writes fail, every entry of the manifest is
\* attempted exactly once, in manifest order, with at most one GET and no
\* retry, and the run reaches its summary: a failed entry never keeps the
\* later entries from being processed.
C4_EveryEntryOnceThenSummary ==
    /\ []EntriesOnceInOrder
    /\ (pc \in {"loop", "images"}) ~> (pc = "summary")

\* C4 witness: the summary of a run whose first entry failed and whose later
\* entries were processed all the same
C4_Witness ==
    /\ pc = "summary" /\ Len(rets) = NumEntries(prog)
    /\ ~rets[1] /\ rets[Len(rets)]

\* C5 as stated: no failure of a write aborts a run; each is caught where it
\* occurs, also that of manifest.json at the end of download_screenshots.py's
\* main.
C5_NoWriteFailureAborts == pc # "raised"

\* C6: in download_articles.py success + len(failed) is the number of
\* entries processed, total at the end, and failed holds the entries whose
\* save_article returned False, in processing order; in the image
\* downloaders 0 <= success <= total and total - success, the failed count
\* reported, is the number of calls that returned False.
C6_CountersConsistent ==
    /\ prog = "articles" =>
         /\ success + Len(failed) = Len(rets)
         /\ Len(rets) = idx - 1
         /\ failed = FailedEntries(rets, 1)
         /\ pc \in {"summary", "done"} => success + Len(failed) = total
    /\ prog \in {"images", "help_images"} =>
         /\ 0 <= success /\ success <= total
         /\ prog = "images" => total = Len(rets)
         /\ success = Len(rets) - Len(FailedEntries(rets, 1))
         /\ pc \in {"summary", "done"} => total - success = Len(FailedEntries(rets, 1))

\* C6 witness: the end of an article run with one success and one failure
C6_Witness ==
    /\ prog = "articles" /\ pc = "summary"
    /\ success = 1 /\ Len(failed) = 1

\* C7 as stated: two distinct image URLs stored into the same directory in
\* one run never get the same filename.
C7_NoFilenameCollision ==
    \A i, j \in DOMAIN stored :
        (stored[i].url # stored[j].url
            /\ PageDir(stored[i].page) = PageDir(stored[j].page))
        => stored[i].filename # stored[j].filename

\* The file of record r is on disk in the directory of its page
RecordFileExists(r) == exists(fs, Path(PageDir(r.page), r.filename))

\* C8 as stated: when a page-scraping run ends, manifest.json holds exactly
\* the records of the image downloads that returned True, in processing
\* order, and the file of every record exists.
C8_ManifestListsArtifacts ==
    (prog = "screenshots" /\ pc \in {"done", "raised"})
        => /\ manifest = Manifest("json", stored)
           /\ \A i \in DOMAIN stored : RecordFileExists(stored[i])

HasToken(s, tok) == \E i \in DOMAIN s : s[i] = tok
NoH1(html) == ~HasToken(html, "<h1>")
NoArticle(html) == ~HasToken(html, "<article>") /\ ~HasToken(html, "<div body>")

\* C10: when the fetched, non-empty HTML has no h1 and/or no article body,
\* save_article still writes the file, with the title "Untitled" and/or an
\* empty body, and (the write succeeding) returns True and the article is
\* counted as a success.
C10_EmptyExtractionIsSuccess ==
    (/\ last.fn = "save_article" /\ last.resp.kind \in UrllibCompleted
     /\ last.resp.body # <<>>
     /\ NoH1(last.resp.body) \/ NoArticle(last.resp.body))
        => /\ last.wr # "none"
           /\ last.wr = "ok" =>
                /\ last.ret /\ LastCounted
                /\ last.post.kind = "md"
                /\ NoH1(last.resp.body) => last.post.title = Untitled
                /\ NoArticle(last.resp.body) => last.post.body = <<>>

\* C10 witness: a page without h1 and without article is saved under the
\* title "Untitled" with an empty body and counted as a success
C10_Witness ==
    /\ last.fn = "save_article" /\ last.resp.kind = "ok"
    /\ NoH1(last.resp.body) /\ NoArticle(last.resp.body) /\ last.resp.body # <<>>
    /\ last.ret /\ last.post = markdown_file(last.item, Untitled, <<>>)
    /\ success > 0 /\ failed = <<>>

\* The extractor has returned a set for a page text
Extracted ==
    applied.fn = "extract_image_urls" /\ applied.done /\ ~applied.res.raised

\* The references of the page the extractor was applied to
PageRefs == applied.arg.page.imgs \cup applied.arg.page.srcs \cup applied.arg.page.bgs

\* C11: a reference that begins with "//" is returned as "https:" + the
\* reference, and one that begins with a single "/" as the origin of
\* base_url + the reference, the same for img src values, srcset entries and
\* url(...) references; "//cdn.example.com/a.png" on https://frame.io/x gives
\* https://cdn.example.com/a.png and "/a.png" gives https://frame.io/a.png.
C11_UrlNormalization ==
    Extracted =>
        /\ \A v \in PageRefs :
             /\ StartsWithSlashSlash(v) => <<"https:">> \o v \in applied.res.urls
             /\ (StartsWithSlash(v) /\ ~StartsWithSlashSlash(v)) =>
                    /\ SubSeq(applied.arg.base_url, 1, 4) \o v \in applied.res.urls
                    /\ v \notin applied.res.urls
             /\ StartsWithSlash(v) => v \notin applied.res.urls
        /\ (/\ applied.arg.base_url = <<"https:", "/", "/", "frame.io", "/", "x">>
            /\ <<"/", "/", "cdn.example.com", "/", "a", ".", "p", "n", "g">> \in PageRefs)
               => <<"https:", "/", "/", "cdn.example.com", "/", "a", ".", "p", "n", "g">>
                      \in applied.res.urls
        /\ (/\ applied.arg.base_url = <<"https:", "/", "/", "frame.io", "/", "x">>
            /\ <<"/", "a", ".", "p", "n", "g">> \in PageRefs)
               => <<"https:", "/", "/", "frame.io", "/", "a", ".", "p", "n", "g">>
                      \in applied.res.urls

\* C11 witness: a srcset with a "//" and a "/" candidate on https://frame.io/x
C11_Witness ==
    /\ Extracted
    /\ applied.arg.base_url = <<"https:", "/", "/", "frame.io", "/", "x">>
    /\ applied.arg.page.srcs = {<<"/", "/", "cdn.example.com", "/", "a", ".", "p", "n", "g">>,
                                <<"/", "a", ".", "p", "n", "g">>}
    /\ applied.res.urls = {<<"https:", "/", "/", "cdn.example.com", "/", "a", ".", "p", "n", "g">>,
                           <<"https:", "/", "/", "frame.io", "/", "a", ".", "p", "n", "g">>}

\* A URL with a scheme
IsAbsoluteUrl(url) == url # <<>> /\ url[1] \in Schemes

\* C12 as stated: every URL extract_image_urls returns is absolute; a
\* relative reference is resolved against base_url and never returned as it
\* is, also when it begins with the letters "http".
C12_EveryUrlAbsolute ==
    Extracted =>
        /\ \A u \in applied.res.urls : IsAbsoluteUrl(u)
        /\ \A v \in applied.arg.page.imgs \cup applied.arg.page.bgs :
             ~IsAbsoluteUrl(v) => v \notin applied.res.urls

\* What the text of the page holds: N distinct img src values, M distinct
\* substrings of one of the CDN shapes, the distinct candidates of its
\* srcset attributes and the distinct url(...) references.
NumImgSrc == Cardinality(Range(ImgValues(applied.arg.page.html, 1)))
NumCdnShaped ==
    Cardinality(UNION {Range(CdnMatches(applied.arg.page.html, 1, pre)) :
                           pre \in CdnPrefixes})
NumSrcsetEntries ==
    Cardinality({FirstWord(part) : part \in Range(SrcsetParts(applied.arg.page.html))})
NumUrlRefs == Cardinality(Range(BgValues(applied.arg.page.html, 1)))

\* C13 as stated: for a text with N distinct img src values and M distinct
\* CDN-shaped substrings the set returned has at most N + M elements.
C13_AtMostImgPlusCdn ==
    Extracted => Cardinality(applied.res.urls) <= NumImgSrc + NumCdnShaped

\* C13 amended: the set returned has at most N + M + S + U elements, S the
\* number of distinct srcset candidates and U the number of distinct
\* url(...) references of the text; at most N + M when the text holds
\* neither a srcset nor a url(...).
C13_AtMostAllSources ==
    Extracted =>
        /\ Cardinality(applied.res.urls)
               <= NumImgSrc + NumCdnShaped + NumSrcsetEntries + NumUrlRefs
        /\ (NumSrcsetEntries = 0 /\ NumUrlRefs = 0) =>
               Cardinality(applied.res.urls) <= NumImgSrc + NumCdnShaped

\* C13 witness: an img src and a url(...) that are the same CDN URL: N = 1,
\* U = 1, M = 2 (the match inside url(...) runs on over the parenthesis),
\* and the set has two elements
C13_Witness ==
    /\ Extracted
    /\ NumImgSrc = 1 /\ NumUrlRefs = 1 /\ NumCdnShaped = 2
    /\ Cardinality(applied.res.urls) = 2

\* The host of a URL text is one of the asset CDNs of the extractor
HostIsCdn(url) ==
    \/ HasWord(urlparse(url).host, "cdn.sanity.io")
    \/ HasWord(urlparse(url).host, "intercomcdn")
    \/ HasWord(urlparse(url).host, "files.buildwithfern.com")

\* A URL text that one of the three CDN patterns matches as a whole
CdnShaped(url) ==
    \E pre \in CdnPrefixes :
        /\ CdnAt(url, 1, pre)
        /\ RunEnd(url, Len(pre) + 1, CdnStops) = Len(url)

\* C14 as stated: is_image_url keeps a URL only if its path ends in an image
\* extension, or its path contains "image", or its host is an asset CDN (a
\* URL that names a CDN in its query only is dropped), and it keeps every
\* URL that one of the CDN patterns of the extractor matches.
C14_FilterKeepsImagesAndCdnHosts ==
    (applied.fn = "is_image_url" /\ applied.done) =>
        /\ applied.res =>
             \/ \E ext \in IMAGE_EXTENSIONS :
                    EndsWith(lower(urlparse(applied.arg).path), ext)
             \/ HasWord(lower(urlparse(applied.arg).path), "image")
             \/ HostIsCdn(applied.arg)
        /\ CdnShaped(applied.arg) => applied.res

\* The converter has been applied to a text
Converted == applied.fn = "html_to_markdown" /\ applied.done

\* The tokens that hold the character "<" or the character ">"
HasAngle(tok) == tok \in Tags \/ tok = "<" \/ tok = ">"

\* C15 as stated: for every text made of tags of the vocabulary around
\* arbitrary text the output of html_to_markdown holds neither "<" nor ">".
C15_NoAngleBrackets ==
    Converted => \A i \in DOMAIN applied.res : ~HasAngle(applied.res[i])

\* C15 amended: when "<" and ">" occur in the input only as the delimiters
\* of tags, the output of html_to_markdown holds neither "<" nor ">".
C15_NoAngleBracketsFromTags ==
    (Converted /\ \A i \in DOMAIN applied.arg : applied.arg[i] \notin {"<", ">"})
        => \A i \in DOMAIN applied.res : ~HasAngle(applied.res[i])

\* C15 witness: the text with every tag of the vocabulary comes out without
\* a tag and not empty
C15_Witness ==
    /\ Converted /\ applied.arg = VocabularyHtml
    /\ applied.res # <<>>
    /\ \A i \in DOMAIN applied.res : ~HasAngle(applied.res[i])

\* Does t occur in s, and does s begin with t?
Contains(s, t) ==
    \E i \in 1 .. Len(s) - Len(t) + 1 : Slice(s, i, i + Len(t) - 1) = t
StartsWithSeq(s, t) == Len(s) >= Len(t) /\ Slice(s, 1, Len(t)) = t

\* The white space clean-up of the converter, on a piece of text
Clean(t) == SubRuns(SubRuns(t, 1, "\n", 3, <<"\n", "\n">>), 1, " ", 2, <<" ">>)

\* An element <open>t</close> with tag-free text t begins at s[i]
ElementAt(s, i, open, close) ==
    /\ s[i] = open
    /\ TextRunEnd(s, i + 1) + 1 <= Len(s)
    /\ s[TextRunEnd(s, i + 1) + 1] = close
ElementText(s, i) == Slice(s, i + 1, TextRunEnd(s, i + 1))

\* No part of the text is inside a script or style block
NoBlocks(s) == \A i \in DOMAIN s : s[i] \notin {"<script>", "<style>"}

Bold(t) == <<"*", "*">> \o t \o <<"*", "*">>
Heading(t) == <<"#", " ">> \o t

\* The example of C16
ExampleConverted ==
    (Converted /\ applied.arg = ExampleHtml)
        => /\ StartsWithSeq(applied.res, <<"#", " ", "T", "i", "t", "l", "e">>)
           /\ Contains(applied.res,
                  <<"H", "e", "l", "l", "o", " ", "*", "*", "w", "o", "r", "l",
                    "d", "*", "*">>)

\* C16 as stated: the example starts with "# Title" and contains
\* "Hello **world**"; every strong or b element with tag-free text t becomes
\* "**t**" and every h1 element with tag-free text t becomes "# t", inside an
\* element that is only tag-stripped too.
C16_StrongAndH1Converted ==
    /\ ExampleConverted
    /\ (Converted /\ NoBlocks(applied.arg)) =>
           \A i \in DOMAIN applied.arg :
               /\ (\/ ElementAt(applied.arg, i, "<strong>", "</strong>")
                   \/ ElementAt(applied.arg, i, "<b>", "</b>"))
                      => Contains(applied.res, Bold(ElementText(applied.arg, i)))
               /\ (/\ ElementAt(applied.arg, i, "<h1>", "</h1>")
                   /\ ElementText(applied.arg, i) # <<>>)
                      => Contains(applied.res, Heading(ElementText(applied.arg, i)))

\* The clean-up leaves t as it is, and t neither begins nor ends with white
\* space
CleanInside(t) == Clean(t) = t
CleanText(t) == t # <<>> /\ Clean(t) = t /\ ~IsSpace(t[1]) /\ ~IsSpace(t[Len(t)])

\* C16 amended: the example as stated; a strong or b element with tag-free
\* text t that holds no run of white space the clean-up shortens becomes
\* "**t**", and an h1 element with tag-free, non-empty text t that the
\* clean-up leaves alone and that has no white space at its ends becomes
\* "# t".
C16_StrongAndH1ConvertedUpToCleanUp ==
    /\ ExampleConverted
    /\ (Converted /\ NoBlocks(applied.arg)) =>
           \A i \in DOMAIN applied.arg :
               /\ (/\ \/ ElementAt(applied.arg, i, "<strong>", "</strong>")
                      \/ ElementAt(applied.arg, i, "<b>", "</b>")
                   /\ CleanInside(ElementText(applied.arg, i)))
                      => Contains(applied.res, Bold(ElementText(applied.arg, i)))
               /\ (/\ ElementAt(applied.arg, i, "<h1>", "</h1>")
                   /\ CleanText(ElementText(applied.arg, i)))
                      => Contains(applied.res, Heading(ElementText(applied.arg, i)))

\* C16 witness: a b element and an h1 element inside a div have been
\* converted
C16_Witness ==
    /\ Converted
    /\ applied.arg = <<"<div>", "<b>", "a", " ", "b", "</b>", "<h1>", "T", "</h1>", "</div>">>
    /\ Contains(applied.res, Bold(<<"a", " ", "b">>))
    /\ Contains(applied.res, Heading(<<"T">>))

\* sanitize_filename has been applied to a URL text
Sanitized == applied.fn = "sanitize_filename" /\ applied.done

\* C17: sanitize_filename(sanitize_filename(x)) = sanitize_filename(x) for
\* every x: applied to a name it returned, the function returns that name.
C17_SanitizeIdempotent ==
    Sanitized => sanitize_filename(urlparse(applied.res)) = applied.res

\* C17 witness: a name in which a character was replaced, and which the
\* function returns unchanged
C17_Witness ==
    /\ Sanitized
    /\ applied.arg = <<"/", "a", "+">>
    /\ applied.res = <<"a", "_">>
    /\ sanitize_filename(urlparse(applied.res)) = applied.res

\* The characters of [A-Za-z0-9_.-]
SafeChars == (WordChars \ {"é"}) \cup {".", "-"}

\* C18 as stated: every filename that sanitize_filename returns, and every
\* filename built in the main loops of download_images.py and
\* download_help_images.py, consists only of characters of [A-Za-z0-9_.-].
C18_OnlySafeCharacters ==
    (applied.fn \in {"sanitize_filename", "download_images", "download_help_images"}
        /\ applied.done)
        => \A k \in DOMAIN applied.res : applied.res[k] \in SafeChars

\* A filename has been built by one of the four scripts
FilenameFns ==
    {"process_page", "download_images", "download_help_images", "download_articles"}
Named == applied.fn \in FilenameFns /\ applied.done

\* What a script puts around the base name: the position and "_" and an
\* extension of at most five characters, "_", the hash and an extension, or
\* the head of the slug, "_" and ".md"
Around(fn, arg) ==
    CASE fn = "process_page" -> 1 + Len(Str(HashMod - 1)) + 5
      [] fn = "download_articles" -> Len(SplitFirst(arg.slug, "-")) + 1 + 3
      [] OTHER -> Len(Pad3(arg.i)) + 1 + 5

\* C19 as stated: in all four scripts the filename an artifact is written
\* under is no longer than a base name of 80 characters plus the prefix,
\* suffix and extension the script adds, whatever the length of the URL's
\* last path segment or of the title.
C19_FilenameLengthBounded ==
    Named => Len(applied.res) <= HelpNameMax + Around(applied.fn, applied.arg)

\* An h1 heading begins at s[i]: an opening tag with a closing tag after it
H1At(s, i) == s[i] = "<h1>" /\ IndexFrom(s, i + 1, "</h1>") # 0
HasH1(s) == \E i \in DOMAIN s : H1At(s, i)
FirstH1(s) == CHOOSE i \in DOMAIN s : H1At(s, i) /\ \A k \in 1 .. i - 1 : ~H1At(s, k)

\* The inner text of the heading at s[i]: what is between its tags, without
\* the tags inside
InnerText(s, i) == SelectSeq(Slice(s, i + 1, IndexFrom(s, i + 1, "</h1>") - 1), IsText)

\* C20 as stated: the title that extract_content returns is the inner text
\* of the first h1 heading of the document, and it is "Untitled" exactly
\* when the document has no h1 heading.
C20_TitleIsFirstH1 ==
    (applied.fn = "extract_content" /\ applied.done)
        => IF HasH1(applied.arg)
           THEN /\ applied.res.title = InnerText(applied.arg, FirstH1(applied.arg))
                /\ applied.res.title # Untitled
           ELSE applied.res.title = Untitled

\* The headings of the converter: opening tag, closing tag, mark
Headings ==
    { <<"<h1>", "</h1>", <<"#", " ">> >>,
      <<"<h2>", "</h2>", <<"#", "#", " ">> >>,
      <<"<h3>", "</h3>", <<"#", "#", "#", " ">> >>,
      <<"<h4>", "</h4>", <<"#", "#", "#", "#", " ">> >> }

\* line occurs in s with a line break or the end of s right after it
IsLineOf(s, line) ==
    \E k \in 1 .. Len(s) - Len(line) + 1 :
        /\ Slice(s, k, k + Len(line) - 1) = line
        /\ (k + Len(line) > Len(s) \/ s[k + Len(line)] = "\n")

\* C21 as stated: the text "# t" (to "#### t") that html_to_markdown
\* produces for an h1 to h4 heading with text t is followed by a line break
\* before whatever followed the heading's closing tag in the input.
C21_HeadingEndsItsLine ==
    (Converted /\ NoBlocks(applied.arg)) =>
        \A i \in DOMAIN applied.arg : \A h \in Headings :
            (/\ ElementAt(applied.arg, i, h[1], h[2])
             /\ CleanText(ElementText(applied.arg, i)))
                => IsLineOf(applied.res, h[3] \o ElementText(applied.arg, i))

\* C22: when the GET of download, download_image or save_article raises, or
\* download_image gets a status other than 200, the target path (and the
\* rest of the disk) is as it was before the call; and a file is at the
\* target after a call only if one was there before or the GET succeeded.
C22_FailedFetchLeavesDisk ==
    last.fn \in FetchFns =>
        /\ (last.gets = 1 /\ ~Accepted(last)) => (last.post = last.pre /\ last.same)
        /\ last.post.kind # "absent"
               => (last.pre.kind # "absent" \/ (last.gets = 1 /\ Accepted(last)))

\* C22 witness: download_image got a 404 for a target that held an image,
\* and the image is still there
C22_Witness ==
    /\ last.fn = "download_image" /\ last.resp.kind = "status_404"
    /\ last.pre.kind = "bytes" /\ last.post = last.pre

\* C23 as stated: extract_image_urls returns a set for every page text and
\* base URL and never raises, also for a srcset list with an empty entry,
\* and every img src of the page is in the set it returns (normalized),
\* whatever else the page holds.
C23_ExtractorNeverRaises ==
    (applied.fn = "extract_image_urls" /\ applied.done) =>
        /\ ~applied.res.raised
        /\ \A v \in applied.arg.page.imgs :
               normalize_url(v, applied.arg.base_url) \in applied.res.urls

\* C24 as stated: the filename process_page stores an image under depends on
\* the image URL alone: whatever value abs(hash(img_url)) % 10000 takes in
\* another run of the program (another process), the URL gets the filename
\* it got in this one.
C24_FilenameOfUrlAlone ==
    (applied.fn = "process_page" /\ applied.done) =>
        \A h \in HashSamples :
            image_filename(urlparse(applied.arg.url), h) = applied.res

\* The last path segment of the URL a filename was built for, and the
\* extensions the script that built it recognizes
NamedSegment ==
    IF applied.fn = "process_page"
    THEN SplitFirst(basename(urlparse(applied.arg.url).path), "?")
    ELSE LastSegment(applied.arg.url)
Recognized ==
    IF applied.fn = "process_page" THEN IMAGE_EXTENSIONS ELSE StaticExtensions

\* C25 as stated: in the three image downloaders a last path segment that
\* ends in a recognized extension gives a filename that ends in that
\* extension, however long the segment is; a segment without one gives a
\* filename that ends in ".png"; every filename ends in a recognized
\* extension.
C25_ExtensionKept ==
    (Named /\ applied.fn # "download_articles") =>
        /\ \A ext \in Recognized :
               EndsWith(NamedSegment, ext) => EndsWith(applied.res, ext)
        /\ (\A ext \in Recognized : ~EndsWith(NamedSegment, ext))
               => EndsWith(applied.res, <<".", "p", "n", "g">>)
        /\ \E ext \in Recognized : EndsWith(applied.res, ext)

====
